---- MODULE Spec2Model ----
(***************************************************************************)
(* A model of the a2f-client streaming service (app/streaming_logic.py,    *)
(* app/main.py): the port allocation of StreamingManager over lock files,  *)
(* the slicing of a job, the slice tasks that share the A2F clients behind  *)
(* one asyncio.Lock each, the ordered drain of submit_job and the adaptive  *)
(* frame rate.                                                              *)
(*                                                                         *)
(* Time is counted in ticks of 0.05 s, so that chunk_size = 0.3 s is 6      *)
(* ticks and every quotient of the source is an exact rational.            *)
(***************************************************************************)
EXTENDS Integers, Sequences, FiniteSets, TLC

\* ----------------------------------------------------------------- bounds
\* Number of jobs (requests) one process receives.
MaxJobs == 2
\* Largest number of slice tasks the requests of one run create together.
MaxTasks == 3
\* Largest audio duration (ticks) of the slicing specification.
MaxDuration == 40
\* Number of co-located processes of this program racing for the lock files.
NumProcs == 2
\* Largest pool (number of A2F clients of one manager) of the rate specification.
MaxPool == 3
\* Number of rate adjustments a run of the rate specification makes.
MaxUpdates == 3
\* Longest wall-clock time (ticks) of a worker call in the rate specification.
MaxElapsed == 12

\* ------------------------------------------------------ program constants
DefaultWorkers == 2
ClientsPerWorker == 2
BasePort == 8190
MaxAttempts == 10
ChunkSizeTicks == 6
initial_fps == 30
default_fps == 10
max_fps == 30
min_fps == 10
SafetyMargin == 7

Min(a, b) == IF a < b THEN a ELSE b
Max(a, b) == IF a > b THEN a ELSE b

Jobs == 1..MaxJobs
Procs == 1..NumProcs
NoTask == <<>>
NoProc == 0
\* Another holder of lock files in the same working directory (an instance
\* of the server that is already running there).
Foreign == NumProcs + 1
NoFps == <<>>

VARIABLES
  \* ---- one serving process: StreamingManager and its jobs
  current_fps,    \* self.current_fps
  chunk_size,     \* self.chunk_size (ticks)
  pool_size,      \* len(self.a2f_clients)
  rate_updates,   \* number of adjustments of self.current_fps made so far
  requests,       \* job -> [duration, fps, emotions, malformed]: the request of
                  \* process_audio_endpoint (audio, fps and emotions form fields)
  jobState,       \* job -> position of the submit_job generator
  awaitIdx,       \* job -> idx of the `for idx, task in enumerate(tasks)` loop
  emitted,        \* job -> sequence of the records the generator yielded
  tasks,          \* job -> (slice index -> slice task)
  client_locks,   \* client -> [holder, waiters]: self.client_locks
  a2f_clients,    \* client -> [audio, emotions, setup, hung]: the jobs whose set_audio
                  \* and set_emotions bound last, the setup calls received so far, and
                  \* whether the A2F server behind the client has stopped answering
  \* ---- the processes that race for the ports
  lock_table,     \* port -> process holding the OS lock of .lock_<port>
  locked_files,   \* process -> sequence of ports (keys of self.locked_files)
  a2f_ports,      \* process -> ports _next_port returned (ports of self.a2f_clients)
  ppc,            \* process -> "init" | "serving" | "failed" | "stopping" | "stopped" | "exited"
  attempt,        \* process -> sweep of the running _next_port call (0..MaxAttempts)
  portIdx         \* process -> position of that sweep in available_ports

jobVars == <<current_fps, chunk_size, pool_size, rate_updates, requests, jobState, awaitIdx, emitted, tasks,
             client_locks, a2f_clients>>
allocVars == <<lock_table, locked_files, a2f_ports, ppc, attempt, portIdx>>
vars == <<current_fps, chunk_size, pool_size, rate_updates, requests, jobState, awaitIdx, emitted, tasks,
          client_locks, a2f_clients, lock_table, locked_files, a2f_ports, ppc,
          attempt, portIdx>>

\* The indices of self.a2f_clients and self.client_locks.
Clients == 0..(pool_size - 1)

\* ------------------------------------------------------------- slicing
\* math.ceil of the rational a / b, b > 0.
CeilDiv(a, b) == -((-a) \div b)

\* A slicing that rounds every started chunk up (no "- 0.5").
nr_splits_ceil(duration, width) == CeilDiv(duration, width)

\* nr_splits = math.ceil(duration / self.chunk_size - 0.5)
nr_splits(duration, width) == CeilDiv(2 * duration - width, 2 * width)

\* chunks = [(i * chunk_size, min((i + 1) * chunk_size, duration)) for i in range(nr_splits)]
chunks(duration, width) ==
  [i \in 0..(nr_splits(duration, width) - 1) |->
     [start |-> i * width, end |-> Min((i + 1) * width, duration)]]

\* ------------------------------------------------------------- the rate
\* safe_fps without its floor at min_fps.
safe_fps_unclamped(cur, len, elapsed) ==
  ((pool_size * cur * len) \div elapsed) - SafetyMargin

\* safe_fps = max(min_fps, floor(len(a2f_clients) * current_fps * alpha - 7)),
\* alpha = (end - start) / elapsed_time
safe_fps(cur, len, elapsed) ==
  Max(min_fps, ((pool_size * cur * len) \div elapsed) - SafetyMargin)

\* self.current_fps = min(max_fps, (current_fps + safe_fps) // 2)
adjusted_fps(cur, len, elapsed) ==
  Min(max_fps, (cur + safe_fps(cur, len, elapsed)) \div 2)

\* Wall-clock times (ticks) a worker call is observed to take.
ElapsedTimes == {3, 12}

\* ------------------------------------------------------------- requests
\* Chunk widths (ticks) of the slicing specification; 6 is self.chunk_size.
ChunkSizes == {6, 10}

\* The requests a run draws its jobs from: 3, 2, 1 and 0 slices; no target
\* fps, one inside and two outside [min_fps, max_fps]; with and without
\* emotion weights, all well-formed.
JobRequests ==
  { [duration |-> 20, fps |-> NoFps,  emotions |-> FALSE, malformed |-> FALSE],
    [duration |-> 14, fps |-> <<20>>, emotions |-> TRUE,  malformed |-> FALSE],
    [duration |-> 8,  fps |-> <<60>>, emotions |-> FALSE, malformed |-> FALSE],
    [duration |-> 2,  fps |-> <<5>>,  emotions |-> TRUE,  malformed |-> FALSE] }

RECURSIVE TotalSlices(_, _, _)
TotalSlices(reqs, width, n) ==
  IF n = 0 THEN 0
  ELSE nr_splits(reqs[n].duration, width) + TotalSlices(reqs, width, n - 1)

\* ------------------------------------------------------------- tasks
Slices(j) == DOMAIN tasks[j]
TaskIds == {<<j, i>> : j \in Jobs, i \in 0..(MaxTasks - 1)}
LiveTaskIds == {t \in TaskIds : t[2] \in Slices(t[1])}
Task(t) == tasks[t[1]][t[2]]
Terminal(pc) == pc \in {"done", "failed", "cancelled"}

\* The order in which the tasks were created.
Earlier(s, t) == s[1] < t[1] \/ (s[1] = t[1] /\ s[2] < t[2])

\* A scheduling that runs the tasks one after the other: a task takes its
\* first step only when every earlier one has ended.
FirstToStartSequential(t) ==
  /\ Task(t).pc = "created"
  /\ \A s \in LiveTaskIds : Earlier(s, t) => Terminal(Task(s).pc)

\* asyncio runs new tasks in creation order: the next task to take its first
\* step is the first created one that has not started.
FirstToStart(t) ==
  /\ Task(t).pc = "created"
  /\ \A s \in LiveTaskIds : Earlier(s, t) => Task(s).pc # "created"

\* A release that frees the lock without waking a waiter.
ReleaseGateNoWake(lock) == [holder |-> NoTask, waiters |-> lock.waiters]

\* asyncio.Lock.release: the lock passes to the first waiter, if any.
ReleaseGate(lock) ==
  IF lock.waiters = <<>>
    THEN [holder |-> NoTask, waiters |-> <<>>]
    ELSE [holder |-> Head(lock.waiters), waiters |-> Tail(lock.waiters)]

RemoveWaiter(q, t) == SelectSeq(q, LAMBDA s : s # t)

\* The record json.dumps({"chunk_id": idx, "result": result}) of a finished task.
Payload(t) == [start |-> t.start, end |-> t.end]
Record(j, i) == [chunk_id |-> i, result |-> Payload(tasks[j][i])]

\* ------------------------------------------------------------- submit_job
\* An assignment that sends every slice to the first client.
client_idx_first(i) == 0

\* client_idx = i % len(self.a2f_clients)
client_idx(i) == i % pool_size

\* process_audio_endpoint: the emotions form field does not parse into
\* EmotionWeights, HTTP 400 is raised before the file is saved and before
\* submit_job is called.
reject_request(j) ==
  /\ jobState[j] = "idle"
  /\ \A k \in Jobs : k < j => jobState[k] # "idle"
  /\ requests[j].malformed
  /\ jobState' = [jobState EXCEPT ![j] = "rejected"]
  /\ UNCHANGED <<current_fps, chunk_size, pool_size, rate_updates, requests, awaitIdx, emitted,
                 tasks, client_locks, a2f_clients>>
  /\ UNCHANGED allocVars

\* audio_path, duration = load_audio(audio_source): the decoder returns the
\* total duration of the audio.
load_audio(req) == req.duration

\* A setup that reaches only the clients that will receive a slice.
SetupClientsWithSlices(n) == {c \in Clients : c < n}

\* `for client in self.a2f_clients`: the clients submit_job sets up, for a
\* job of n slices.
SetupClients(n) == Clients

\* client.set_audio(audio_path), then client.set_emotions(dict(emotions)) if
\* the job has emotions.
SetupCalls(j, req) ==
  <<[job |-> j, call |-> "set_audio"]>> \o
    (IF req.emotions THEN <<[job |-> j, call |-> "set_emotions"]>> ELSE <<>>)

\* The setup calls of job j in the history of client c.
SetupOf(j, c) == SelectSeq(a2f_clients[c].setup, LAMBDA e : e.job = j)

\* First step of the generator, called by process_audio_endpoint once the
\* emotions parsed: everything up to the first `await task`.
submit_job(j) ==
  /\ jobState[j] = "idle"
  /\ \A k \in Jobs : k < j => jobState[k] # "idle"
  /\ ~requests[j].malformed
  /\ LET req == requests[j]
         cs  == chunks(load_audio(req), chunk_size)
     IN /\ current_fps' = (IF req.fps = NoFps THEN default_fps ELSE req.fps[1])
        /\ a2f_clients' =
             [c \in Clients |->
                IF c \in SetupClients(Cardinality(DOMAIN cs))
                  THEN [a2f_clients[c] EXCEPT
                          !.audio = j,
                          !.emotions = IF req.emotions THEN j ELSE @,
                          !.setup = @ \o SetupCalls(j, req)]
                  ELSE a2f_clients[c]]
        /\ tasks' = [tasks EXCEPT ![j] =
             [i \in DOMAIN cs |->
                [pc |-> "created", client |-> client_idx(i),
                 start |-> cs[i].start, end |-> cs[i].end,
                 thr |-> "none", calls |-> 0, callFps |-> 0]]]
        /\ jobState' = [jobState EXCEPT ![j] =
             IF DOMAIN cs = {} THEN "done" ELSE "awaiting"]
  /\ UNCHANGED <<chunk_size, pool_size, rate_updates, requests, awaitIdx, emitted, client_locks>>
  /\ UNCHANGED allocVars

\* ------------------------------------------- generate_blendshapes_coroutine
\* Submit the blocking call to the executor (run_in_executor).
Dispatched(t) == [t EXCEPT !.pc = "running", !.thr = "queued"]

\* First step of a slice task: `async with self.client_locks[client_idx]`.
task_start(j, i) ==
  /\ i \in Slices(j)
  /\ FirstToStart(<<j, i>>)
  /\ LET c == tasks[j][i].client
         lock == client_locks[c]
     IN IF lock.holder = NoTask /\ lock.waiters = <<>>
          THEN /\ client_locks' = [client_locks EXCEPT ![c].holder = <<j, i>>]
               /\ tasks' = [tasks EXCEPT ![j][i] = Dispatched(@)]
          ELSE /\ client_locks' = [client_locks EXCEPT ![c].waiters = Append(@, <<j, i>>)]
               /\ tasks' = [tasks EXCEPT ![j][i].pc = "waiting"]
  /\ UNCHANGED <<current_fps, chunk_size, pool_size, rate_updates, requests, jobState, awaitIdx, emitted, a2f_clients>>
  /\ UNCHANGED allocVars

\* A waiter that was handed the lock resumes and submits its call.
gate_acquired(j, i) ==
  /\ i \in Slices(j)
  /\ tasks[j][i].pc = "waiting"
  /\ client_locks[tasks[j][i].client].holder = <<j, i>>
  /\ tasks' = [tasks EXCEPT ![j][i] = Dispatched(@)]
  /\ UNCHANGED <<current_fps, chunk_size, pool_size, rate_updates, requests, jobState, awaitIdx, emitted,
                 client_locks, a2f_clients>>
  /\ UNCHANGED allocVars

\* A rate bound when the task is created: the one submit_job set for the job.
call_fps_at_creation(j, i) ==
  IF requests[j].fps = NoFps THEN default_fps ELSE requests[j].fps[1]

\* The third argument of the lambda's call, evaluated when the lambda runs:
\* self.current_fps.
call_fps(j, i) == current_fps

\* An executor thread starts the lambda: client.generate_blendshapes(start, end,
\* self.current_fps, use_a2e), reading current_fps now. callFps is the rate of the
\* call in progress (0 when no call of the task is executing).
executor_start(j, i) ==
  /\ i \in Slices(j)
  /\ tasks[j][i].thr = "queued"
  /\ tasks' = [tasks EXCEPT ![j][i].thr = "running",
                            ![j][i].calls = @ + 1,
                            ![j][i].callFps = call_fps(j, i)]
  /\ UNCHANGED <<current_fps, chunk_size, pool_size, rate_updates, requests, jobState, awaitIdx, emitted,
                 client_locks, a2f_clients>>
  /\ UNCHANGED allocVars

\* The blocking call returns in its thread, unless the server never answers.
executor_return(j, i) ==
  /\ i \in Slices(j)
  /\ tasks[j][i].thr = "running"
  /\ ~a2f_clients[tasks[j][i].client].hung
  /\ tasks' = [tasks EXCEPT ![j][i].thr = "returned", ![j][i].callFps = 0]
  /\ UNCHANGED <<current_fps, chunk_size, pool_size, rate_updates, requests, jobState, awaitIdx, emitted,
                 client_locks, a2f_clients>>
  /\ UNCHANGED allocVars

\* The blocking call raises in its thread (remote error, transport timeout).
executor_raise(j, i) ==
  /\ i \in Slices(j)
  /\ tasks[j][i].thr = "running"
  /\ ~a2f_clients[tasks[j][i].client].hung
  /\ tasks' = [tasks EXCEPT ![j][i].thr = "raised", ![j][i].callFps = 0]
  /\ UNCHANGED <<current_fps, chunk_size, pool_size, rate_updates, requests, jobState, awaitIdx, emitted,
                 client_locks, a2f_clients>>
  /\ UNCHANGED allocVars

\* The task resumes after the call returned: adjust the rate, leave the
\* `async with` (release the lock), return the result.
task_resume(j, i) ==
  /\ i \in Slices(j)
  /\ tasks[j][i].pc = "running"
  /\ tasks[j][i].thr = "returned"
  /\ \E elapsed \in ElapsedTimes :
       current_fps' = adjusted_fps(current_fps, tasks[j][i].end - tasks[j][i].start, elapsed)
  /\ client_locks' = [client_locks EXCEPT ![tasks[j][i].client] = ReleaseGate(@)]
  /\ rate_updates' = rate_updates + 1
  /\ tasks' = [tasks EXCEPT ![j][i].pc = "done"]
  /\ UNCHANGED <<chunk_size, pool_size, requests, jobState, awaitIdx, emitted, a2f_clients>>
  /\ UNCHANGED allocVars

\* A failing task that keeps the lock (no `async with`).
task_fail_keeps_gate(j, i) ==
  /\ i \in Slices(j)
  /\ tasks[j][i].pc = "running"
  /\ tasks[j][i].thr = "raised"
  /\ tasks' = [tasks EXCEPT ![j][i].pc = "failed"]
  /\ UNCHANGED <<current_fps, chunk_size, pool_size, rate_updates, requests, jobState, awaitIdx, emitted,
                 client_locks, a2f_clients>>
  /\ UNCHANGED allocVars

\* The task resumes after the call raised: the exception leaves the
\* `async with` (release the lock) and ends the task.
task_fail(j, i) ==
  /\ i \in Slices(j)
  /\ tasks[j][i].pc = "running"
  /\ tasks[j][i].thr = "raised"
  /\ client_locks' = [client_locks EXCEPT ![tasks[j][i].client] = ReleaseGate(@)]
  /\ tasks' = [tasks EXCEPT ![j][i].pc = "failed"]
  /\ UNCHANGED <<current_fps, chunk_size, pool_size, rate_updates, requests, jobState, awaitIdx, emitted, a2f_clients>>
  /\ UNCHANGED allocVars

\* ------------------------------------------------ submit_job: ordered drain
\* A drain that takes whichever task is finished (asyncio.as_completed).
EmittableAsCompleted(j, i) ==
  /\ i >= awaitIdx[j]
  /\ tasks[j][i].pc = "done"
  /\ \A k \in 1..Len(emitted[j]) : emitted[j][k].result # Payload(tasks[j][i])

\* `result = await task` for idx, in the order of the list.
Emittable(j, i) ==
  /\ i = awaitIdx[j]
  /\ tasks[j][i].pc = "done"

\* `yield json_str`: the awaited task is done, its record is emitted.
emit_chunk(j) ==
  /\ jobState[j] = "awaiting"
  /\ \E i \in Slices(j) :
       /\ Emittable(j, i)
       /\ emitted' = [emitted EXCEPT ![j] =
            Append(@, [chunk_id |-> awaitIdx[j], result |-> Payload(tasks[j][i])])]
  /\ jobState' = [jobState EXCEPT ![j] = "yielded"]
  /\ UNCHANGED <<current_fps, chunk_size, pool_size, rate_updates, requests, awaitIdx, tasks, client_locks, a2f_clients>>
  /\ UNCHANGED allocVars

\* The consumer (cleanup_generator's `async for`) asks for the next chunk:
\* the loop moves to the next task, or ends after the last one.
pull_next(j) ==
  /\ jobState[j] = "yielded"
  /\ awaitIdx' = [awaitIdx EXCEPT ![j] = @ + 1]
  /\ jobState' = [jobState EXCEPT ![j] =
       IF awaitIdx[j] + 1 \in Slices(j) THEN "awaiting" ELSE "done"]
  /\ UNCHANGED <<current_fps, chunk_size, pool_size, rate_updates, requests, emitted, tasks, client_locks, a2f_clients>>
  /\ UNCHANGED allocVars

\* A drain that skips a failed task and goes on with the next one.
surface_error_skips(j) ==
  /\ jobState[j] = "awaiting"
  /\ tasks[j][awaitIdx[j]].pc = "failed"
  /\ awaitIdx' = [awaitIdx EXCEPT ![j] = @ + 1]
  /\ jobState' = [jobState EXCEPT ![j] =
       IF awaitIdx[j] + 1 \in Slices(j) THEN "awaiting" ELSE "done"]
  /\ UNCHANGED <<current_fps, chunk_size, pool_size, rate_updates, requests, emitted, tasks, client_locks, a2f_clients>>
  /\ UNCHANGED allocVars

\* `await task` re-raises the exception of a failed task: the generator ends
\* with that error.
surface_error(j) ==
  /\ jobState[j] = "awaiting"
  /\ tasks[j][awaitIdx[j]].pc = "failed"
  /\ jobState' = [jobState EXCEPT ![j] = "error"]
  /\ UNCHANGED <<current_fps, chunk_size, pool_size, rate_updates, requests, awaitIdx, emitted, tasks,
                 client_locks, a2f_clients>>
  /\ UNCHANGED allocVars

\* The consumer stops while the generator is suspended at `yield`: the
\* generator is closed (GeneratorExit at the yield); submit_job has no
\* try/finally, so no task is touched.
consumer_close(j) ==
  /\ jobState[j] = "yielded"
  /\ jobState' = [jobState EXCEPT ![j] = "aborted"]
  /\ UNCHANGED <<current_fps, chunk_size, pool_size, rate_updates, requests, awaitIdx, emitted, tasks,
                 client_locks, a2f_clients>>
  /\ UNCHANGED allocVars

\* What Task.cancel() does to the one task the generator is awaiting.
Cancelled(t) ==
  [t EXCEPT !.pc = IF Terminal(t.pc) THEN t.pc ELSE "cancelled",
            !.thr = IF t.thr = "queued" THEN "cancelled" ELSE t.thr]

LockAfterCancel(lock, id, t) ==
  IF t.pc \in {"waiting", "running"} /\ lock.holder = id THEN ReleaseGate(lock)
  ELSE IF t.pc = "waiting" THEN [lock EXCEPT !.waiters = RemoveWaiter(@, id)]
  ELSE lock

\* The consumer is cancelled while the generator waits in `await task`
\* (client disconnect): the cancellation reaches the awaited task, which
\* leaves its `async with`; a call already running in its thread runs on.
consumer_cancel(j) ==
  /\ jobState[j] = "awaiting"
  /\ LET i == awaitIdx[j]
         t == tasks[j][i]
     IN /\ tasks' = [tasks EXCEPT ![j][i] = Cancelled(t)]
        /\ client_locks' = [client_locks EXCEPT ![t.client] = LockAfterCancel(@, <<j, i>>, t)]
  /\ jobState' = [jobState EXCEPT ![j] = "aborted"]
  /\ UNCHANGED <<current_fps, chunk_size, pool_size, rate_updates, requests, awaitIdx, emitted, a2f_clients>>
  /\ UNCHANGED allocVars

\* ------------------------------------------------------------- ports
\* A range with the ports of one process only.
available_ports_one_process == [k \in 1..ClientsPerWorker |-> BasePort + k - 1]

\* self.available_ports = range(8190, 8190 + Config.DEFAULT_WORKERS * clients_per_worker)
available_ports == [k \in 1..(DefaultWorkers * ClientsPerWorker) |-> BasePort + k - 1]
Ports == {available_ports[k] : k \in DOMAIN available_ports}
Held(p) == {locked_files[p][k] : k \in DOMAIN locked_files[p]}

\* An acquire that takes a successful open() for the lock.
_acquire_lock_open_only(number) == TRUE

\* _acquire_lock: the non-blocking exclusive lock (flock LOCK_EX | LOCK_NB,
\* msvcrt LK_NBLCK) on a fresh handle of .lock_<number> succeeds iff no handle
\* of any process, this one included, holds it.
_acquire_lock(number) == lock_table[number] = NoProc

\* The port is returned and bound to the next A2FClient.
PortReturned(p, port) ==
  /\ a2f_ports' = [a2f_ports EXCEPT ![p] = Append(@, port)]
  /\ attempt' = [attempt EXCEPT ![p] = 0]
  /\ portIdx' = [portIdx EXCEPT ![p] = 1]
  /\ ppc' = [ppc EXCEPT ![p] =
       IF Len(a2f_ports[p]) + 1 = ClientsPerWorker THEN "serving" ELSE "init"]

\* The acquire failed: next port of the sweep, next sweep, or RuntimeError.
PortRefused(p) ==
  LET lastPort == portIdx[p] = Len(available_ports)
      sweeps == IF lastPort THEN attempt[p] + 1 ELSE attempt[p]
  IN /\ portIdx' = [portIdx EXCEPT ![p] = IF lastPort THEN 1 ELSE @ + 1]
     /\ attempt' = [attempt EXCEPT ![p] = sweeps]
     /\ ppc' = [ppc EXCEPT ![p] = IF sweeps = MaxAttempts THEN "failed" ELSE "init"]
     /\ UNCHANGED <<lock_table, locked_files, a2f_ports>>

\* A _next_port that falls back to the last port of the range when the
\* sweeps are used up.
try_port_fallback(p) ==
  /\ ppc[p] = "init"
  /\ LET port == available_ports[portIdx[p]]
     IN IF _acquire_lock(port)
          THEN /\ lock_table' = [lock_table EXCEPT ![port] = p]
               /\ locked_files' = [locked_files EXCEPT ![p] = Append(@, port)]
               /\ PortReturned(p, port)
          ELSE IF portIdx[p] = Len(available_ports) /\ attempt[p] + 1 = MaxAttempts
                 THEN /\ PortReturned(p, port)
                      /\ UNCHANGED <<lock_table, locked_files>>
                 ELSE PortRefused(p)
  /\ UNCHANGED jobVars

\* One pass of the inner loop of _next_port, within __init__'s list of
\* A2FClient(port=str(self._next_port())): sleep, then _acquire_lock(port).
try_port(p) ==
  /\ ppc[p] = "init"
  /\ LET port == available_ports[portIdx[p]]
     IN IF _acquire_lock(port)
          THEN /\ lock_table' = [lock_table EXCEPT ![port] = p]
               /\ locked_files' = [locked_files EXCEPT ![p] = Append(@, port)]
               /\ PortReturned(p, port)
          ELSE PortRefused(p)
  /\ UNCHANGED jobVars

\* A teardown that forgets the port without unlocking or closing its file.
lifespan_release_keeps_lock(p) ==
  /\ ppc[p] \in {"serving", "stopping"}
  /\ locked_files[p] # <<>>
  /\ locked_files' = [locked_files EXCEPT ![p] = Tail(@)]
  /\ ppc' = [ppc EXCEPT ![p] = IF Tail(locked_files[p]) = <<>> THEN "stopped" ELSE "stopping"]
  /\ UNCHANGED <<lock_table, a2f_ports, attempt, portIdx>>
  /\ UNCHANGED jobVars

\* lifespan teardown: one _release_lock(port) of its loop over locked_files.
lifespan_release(p) ==
  /\ ppc[p] \in {"serving", "stopping"}
  /\ locked_files[p] # <<>>
  /\ LET port == Head(locked_files[p])
     IN /\ lock_table' = [lock_table EXCEPT ![port] = IF @ = p THEN NoProc ELSE @]
        /\ locked_files' = [locked_files EXCEPT ![p] = Tail(@)]
        /\ ppc' = [ppc EXCEPT ![p] = IF Tail(locked_files[p]) = <<>> THEN "stopped" ELSE "stopping"]
  /\ UNCHANGED <<a2f_ports, attempt, portIdx>>
  /\ UNCHANGED jobVars

\* The process whose __init__ raised ends: __del__ releases what it holds.
process_exit(p) ==
  /\ ppc[p] = "failed"
  /\ lock_table' = [port \in Ports |-> IF lock_table[port] = p THEN NoProc ELSE lock_table[port]]
  /\ locked_files' = [locked_files EXCEPT ![p] = <<>>]
  /\ ppc' = [ppc EXCEPT ![p] = "exited"]
  /\ UNCHANGED <<a2f_ports, attempt, portIdx>>
  /\ UNCHANGED jobVars

\* No process has started constructing its StreamingManager.
ProcsIdle ==
  /\ locked_files = [p \in Procs |-> <<>>]
  /\ a2f_ports = [p \in Procs |-> <<>>]
  /\ ppc = [p \in Procs |-> "init"]
  /\ attempt = [p \in Procs |-> 0]
  /\ portIdx = [p \in Procs |-> 1]

\* Process 1 after StreamingManager.__init__: it holds the first
\* len(a2f_clients) ports and serves.
Constructed ==
  LET mine == SubSeq(available_ports, 1, pool_size)
  IN /\ lock_table = [port \in Ports |-> IF port < BasePort + pool_size THEN 1 ELSE NoProc]
     /\ locked_files = [p \in Procs |-> IF p = 1 THEN mine ELSE <<>>]
     /\ a2f_ports = [p \in Procs |-> IF p = 1 THEN mine ELSE <<>>]
     /\ ppc = [p \in Procs |-> IF p = 1 THEN "serving" ELSE "init"]
     /\ attempt = [p \in Procs |-> 0]
     /\ portIdx = [p \in Procs |-> 1]

\* The manager's fields after __init__, no job submitted.
JobsIdle ==
  /\ current_fps = initial_fps
  /\ rate_updates = 0
  /\ jobState = [j \in Jobs |-> "idle"]
  /\ awaitIdx = [j \in Jobs |-> 0]
  /\ emitted = [j \in Jobs |-> <<>>]
  /\ tasks = [j \in Jobs |-> <<>>]
  /\ client_locks = [c \in Clients |-> [holder |-> NoTask, waiters |-> <<>>]]
  /\ a2f_clients = [c \in Clients |-> [audio |-> 0, emotions |-> 0, setup |-> <<>>, hung |-> FALSE]]

\* ------------------------------------------------------------- Spec
\* One process after construction, serving the jobs of `requests`.
Init ==
  /\ pool_size = ClientsPerWorker
  /\ JobsIdle
  /\ chunk_size = ChunkSizeTicks
  /\ requests \in [Jobs -> JobRequests]
  /\ TotalSlices(requests, chunk_size, MaxJobs) <= MaxTasks
  /\ Constructed

Next ==
  \/ \E j \in Jobs : submit_job(j)
  \/ \E j \in Jobs, i \in 0..(MaxTasks - 1) : task_start(j, i)
  \/ \E j \in Jobs, i \in 0..(MaxTasks - 1) : gate_acquired(j, i)
  \/ \E j \in Jobs, i \in 0..(MaxTasks - 1) : executor_start(j, i)
  \/ \E j \in Jobs, i \in 0..(MaxTasks - 1) : executor_return(j, i)
  \/ \E j \in Jobs, i \in 0..(MaxTasks - 1) : executor_raise(j, i)
  \/ \E j \in Jobs, i \in 0..(MaxTasks - 1) : task_resume(j, i)
  \/ \E j \in Jobs, i \in 0..(MaxTasks - 1) : task_fail(j, i)
  \/ \E j \in Jobs : emit_chunk(j)
  \/ \E j \in Jobs : pull_next(j)
  \/ \E j \in Jobs : surface_error(j)
  \/ \E j \in Jobs : consumer_close(j)
  \/ \E j \in Jobs : consumer_cancel(j)

Spec == Init /\ [][Next]_vars

\* The event loop runs every task that is ready, the executor starts every
\* queued call, and every worker call returns or raises. Nothing obliges a
\* request to arrive or the consumer to go on. A run has finitely many task
\* steps, so fairness for their disjunction is fairness for each of them.
Progress ==
  \E j \in Jobs, i \in 0..(MaxTasks - 1) :
    \/ task_start(j, i)
    \/ gate_acquired(j, i)
    \/ executor_start(j, i)
    \/ executor_return(j, i)
    \/ executor_raise(j, i)
    \/ task_resume(j, i)
    \/ task_fail(j, i)

Fairness == WF_vars(Progress)

FairSpec == Init /\ [][Next]_vars /\ Fairness

\* The consumer keeps draining: cleanup_generator's `async for` asks for the
\* next chunk whenever the generator has yielded one, and the generator goes
\* on whenever the task it awaits has ended.
Drain == \E j \in Jobs : emit_chunk(j) \/ pull_next(j)

\* Every worker call returns.
CallsReturn ==
  \E j \in Jobs, i \in 0..(MaxTasks - 1) :
    \/ task_start(j, i)
    \/ gate_acquired(j, i)
    \/ executor_start(j, i)
    \/ executor_return(j, i)
    \/ task_resume(j, i)

\* A process with a pool of 1..MaxPool clients serving the jobs of
\* `requests`, none of whose calls raises and none of whose consumers stops.
InitDrain ==
  /\ pool_size \in 1..MaxPool
  /\ JobsIdle
  /\ chunk_size = ChunkSizeTicks
  /\ requests \in [Jobs -> JobRequests]
  /\ TotalSlices(requests, chunk_size, MaxJobs) <= MaxTasks
  /\ Constructed

NextDrain ==
  \/ \E j \in Jobs : submit_job(j)
  \/ CallsReturn
  \/ Drain

DrainSpec == InitDrain /\ [][NextDrain]_vars /\ WF_vars(CallsReturn) /\ WF_vars(Drain)

\* ------------------------------------------------------------- HungSpec
\* The same, with one client of the pool whose server never answers a
\* generate call (the layer sets no timeout).
InitHung ==
  /\ pool_size \in 1..MaxPool
  /\ current_fps = initial_fps
  /\ rate_updates = 0
  /\ chunk_size = ChunkSizeTicks
  /\ requests \in [Jobs -> JobRequests]
  /\ TotalSlices(requests, chunk_size, MaxJobs) <= MaxTasks
  /\ jobState = [j \in Jobs |-> "idle"]
  /\ awaitIdx = [j \in Jobs |-> 0]
  /\ emitted = [j \in Jobs |-> <<>>]
  /\ tasks = [j \in Jobs |-> <<>>]
  /\ client_locks = [c \in Clients |-> [holder |-> NoTask, waiters |-> <<>>]]
  /\ \E h \in Clients :
       a2f_clients = [c \in Clients |->
         [audio |-> 0, emotions |-> 0, setup |-> <<>>, hung |-> (c = h)]]
  /\ Constructed

HungSpec == InitHung /\ [][NextDrain]_vars /\ WF_vars(CallsReturn) /\ WF_vars(Drain)

\* The first chunk of job j on a client that does not answer; the number of
\* its slices if there is none.
FirstHungChunk(j) ==
  LET stuck == {i \in Slices(j) : a2f_clients[tasks[j][i].client].hung}
  IN IF stuck = {} THEN Cardinality(Slices(j))
     ELSE CHOOSE i \in stuck : \A k \in stuck : i <= k

\* ------------------------------------------------------------- SpecPool
\* The same process constructed with a pool of 1..MaxPool clients; its first
\* job is any of JobRequests, the later ones carry audio too short for a slice.
InitPool ==
  /\ pool_size \in 1..MaxPool
  /\ JobsIdle
  /\ chunk_size = ChunkSizeTicks
  /\ \E first, short \in JobRequests :
       /\ nr_splits(short.duration, chunk_size) = 0
       /\ requests = [j \in Jobs |-> IF j = 1 THEN first ELSE short]
  /\ TotalSlices(requests, chunk_size, MaxJobs) <= MaxTasks
  /\ Constructed

SpecPool == InitPool /\ [][Next]_vars

\* ------------------------------------------------------------- SpecSlices
\* The requests alone, over every duration up to MaxDuration and every chunk
\* width of ChunkSizes, without emotions, with emotions that parse and with
\* emotions that do not.
InitSlices ==
  /\ pool_size = ClientsPerWorker
  /\ JobsIdle
  /\ chunk_size \in ChunkSizes
  /\ \E d \in 0..MaxDuration, e, m \in BOOLEAN :
       /\ m => e
       /\ requests = [j \in Jobs |->
            [duration |-> d, fps |-> NoFps, emotions |-> e, malformed |-> m]]
  /\ Constructed

NextSlices ==
  \/ \E j \in Jobs : submit_job(j)
  \/ \E j \in Jobs : reject_request(j)

SpecSlices == InitSlices /\ [][NextSlices]_vars

\* ------------------------------------------------------------- SpecRate
\* The rate adjustment at the end of generate_blendshapes_coroutine, for a
\* slice of `len` ticks whose call took `elapsed` ticks.
adjust_fps(len, elapsed) ==
  /\ rate_updates < MaxUpdates
  /\ current_fps' = adjusted_fps(current_fps, len, elapsed)
  /\ rate_updates' = rate_updates + 1
  /\ UNCHANGED <<chunk_size, pool_size, requests, jobState, awaitIdx, emitted, tasks,
                 client_locks, a2f_clients>>
  /\ UNCHANGED allocVars

\* The adjustment alone: a manager of 1..MaxPool clients whose current_fps
\* a job has set within [min_fps, max_fps], and slices of every length up to
\* chunk_size observed with every elapsed time up to MaxElapsed.
InitRate ==
  /\ pool_size \in 1..MaxPool
  /\ current_fps \in min_fps..max_fps
  /\ rate_updates = 0
  /\ chunk_size = ChunkSizeTicks
  /\ requests = [j \in Jobs |-> [duration |-> 0, fps |-> NoFps, emotions |-> FALSE, malformed |-> FALSE]]
  /\ jobState = [j \in Jobs |-> "idle"]
  /\ awaitIdx = [j \in Jobs |-> 0]
  /\ emitted = [j \in Jobs |-> <<>>]
  /\ tasks = [j \in Jobs |-> <<>>]
  /\ client_locks = [c \in Clients |-> [holder |-> NoTask, waiters |-> <<>>]]
  /\ a2f_clients = [c \in Clients |-> [audio |-> 0, emotions |-> 0, setup |-> <<>>, hung |-> FALSE]]
  /\ Constructed

NextRate == \E len \in 1..ChunkSizeTicks, elapsed \in 1..MaxElapsed : adjust_fps(len, elapsed)

SpecRate == InitRate /\ [][NextRate]_vars

\* An adjustment after a slice that ran at least as fast as real time
\* (alpha >= 1), and after one that ran slower (alpha < 1).
FastAdjustment ==
  \E len \in 1..ChunkSizeTicks, elapsed \in 1..MaxElapsed :
    len >= elapsed /\ adjust_fps(len, elapsed)
SlowAdjustment ==
  \E len \in 1..ChunkSizeTicks, elapsed \in 1..MaxElapsed :
    len < elapsed /\ adjust_fps(len, elapsed)

\* ------------------------------------------------------------- SpecAlloc
\* NumProcs processes constructing their StreamingManager over the same
\* working directory, then shutting down, while the first k ports of the
\* range are locked by a foreign holder.
InitAlloc ==
  /\ pool_size = ClientsPerWorker
  /\ JobsIdle
  /\ chunk_size = ChunkSizeTicks
  /\ requests = [j \in Jobs |-> [duration |-> 0, fps |-> NoFps, emotions |-> FALSE, malformed |-> FALSE]]
  /\ \E k \in 0..Len(available_ports) :
       lock_table = [port \in Ports |-> IF port < BasePort + k THEN Foreign ELSE NoProc]
  /\ ProcsIdle

NextAlloc ==
  \/ \E p \in Procs : try_port(p)
  \/ \E p \in Procs : lifespan_release(p)
  \/ \E p \in Procs : process_exit(p)

SpecAlloc == InitAlloc /\ [][NextAlloc]_vars

\* ------------------------------------------------------------- properties
GateHeldBy(t) == t \in LiveTaskIds /\ client_locks[Task(t).client].holder = t
Waits(t) == \E k \in DOMAIN client_locks[Task(t).client].waiters :
              client_locks[Task(t).client].waiters[k] = t
CallsRunningOn(c) == {t \in LiveTaskIds : Task(t).client = c /\ Task(t).thr = "running"}
Submitted(j) == jobState[j] \notin {"idle", "rejected"}

\* C1: the k-th record a job emitted (counting from 0) has chunk_id k and
\* carries the payload of slice k, whatever the order in which the slices
\* finished.
EmissionInOrder ==
  \A j \in Jobs : \A k \in 1..Len(emitted[j]) :
    /\ k - 1 \in Slices(j)
    /\ emitted[j][k].chunk_id = k - 1
    /\ emitted[j][k].result = Payload(tasks[j][k - 1])
    /\ emitted[j][k].result.start = (k - 1) * chunk_size

\* C1 witness: chunk 0 is out, slice 2 has finished and slice 1 has not.
LaterSliceFinishedFirst ==
  \E j \in Jobs :
    /\ Len(emitted[j]) = 1
    /\ jobState[j] = "awaiting"
    /\ 2 \in Slices(j)
    /\ tasks[j][2].pc = "done"
    /\ tasks[j][1].pc = "running"

\* C2: at most one generate call executes on a client at any time.
OneCallPerWorker == \A c \in Clients : Cardinality(CallsRunningOn(c)) <= 1

\* C4: current_fps lies within [min_fps, max_fps] in every state.
FpsWithinBounds == current_fps \in min_fps..max_fps

\* C5: the slices of a job that has any start at 0, follow one another
\* without gap or overlap and end at the duration.
SlicesCoverDuration ==
  \A j \in Jobs : Slices(j) # {} =>
    LET n == Cardinality(Slices(j))
    IN /\ tasks[j][0].start = 0
       /\ \A i \in 0..(n - 2) : tasks[j][i + 1].start = tasks[j][i].end
       /\ \A i \in 0..(n - 1) : tasks[j][i].start < tasks[j][i].end
       /\ tasks[j][n - 1].end = requests[j].duration

\* C6: a submitted job has n = ceil(d / w - 1/2) slice tasks, numbered
\* 0..n-1 (n is the least integer with n >= d/w - 1/2); when d < w/2 it has
\* none, its generator is finished and it has emitted nothing.
SliceCount ==
  \A j \in Jobs : Submitted(j) =>
    LET n == Cardinality(Slices(j))
        d == requests[j].duration
        w == chunk_size
    IN /\ Slices(j) = 0..(n - 1)
       /\ 2 * w * n >= 2 * d - w
       /\ 2 * w * (n - 1) < 2 * d - w
       /\ (2 * d < w => n = 0 /\ jobState[j] = "done" /\ emitted[j] = <<>>)
       /\ (n = 0 => jobState[j] = "done")

\* C6 witness: a job with audio shorter than half a chunk was submitted.
ShortJobSubmitted ==
  \E j \in Jobs :
    /\ Submitted(j)
    /\ requests[j].duration > 0
    /\ 2 * requests[j].duration < chunk_size
    /\ tasks[j] = <<>>

\* C7: once the consumer of a job has stopped, no task of the job that was
\* not awaited yet is still to run: each is cancelled (or had finished).
UnawaitedTasksCancelled ==
  \A j \in Jobs : jobState[j] = "aborted" =>
    \A i \in Slices(j) : i > awaitIdx[j] => Terminal(tasks[j][i].pc)

\* C8: a client lock that is held is eventually free again (held ~> free,
\* written as the equivalent []<>free), so every task that acquired it
\* released it; a task that has ended (done, failed or cancelled) neither
\* holds nor waits for a lock, so that with every task ended every lock is
\* free.
GatesReleased ==
  /\ \A c \in 0..(ClientsPerWorker - 1) : []<>(client_locks[c].holder = NoTask)
  /\ [](\A t \in LiveTaskIds : Terminal(Task(t).pc) => ~GateHeldBy(t) /\ ~Waits(t))
  /\ []((\A t \in LiveTaskIds : Terminal(Task(t).pc)) =>
          \A c \in Clients : client_locks[c] = [holder |-> NoTask, waiters |-> <<>>])

\* C8 witness: a job whose consumer stopped, with a failed task and every
\* task ended and every lock free.
AbortedJobLeftNoGate ==
  /\ \E j \in Jobs : jobState[j] = "aborted" /\ Cardinality(Slices(j)) >= 2
  /\ \E t \in LiveTaskIds : Task(t).pc = "failed"
  /\ \A t \in LiveTaskIds : Terminal(Task(t).pc)
  /\ \A c \in Clients : client_locks[c].holder = NoTask

\* C9: a generator that ended with the error of slice k has emitted exactly
\* the records of chunks 0..k-1; no record of a chunk at or after a slice
\* whose call raised is ever emitted; the error is final; no slice's
\* generate is invoked twice.
FailureTruncatesStream ==
  /\ [](\A j \in Jobs :
         /\ jobState[j] = "error" =>
              /\ tasks[j][awaitIdx[j]].pc = "failed"
              /\ emitted[j] = [k \in 1..awaitIdx[j] |-> Record(j, k - 1)]
         /\ \A i \in Slices(j) :
              /\ tasks[j][i].calls <= 1
              /\ tasks[j][i].thr = "raised" =>
                   \A k \in 1..Len(emitted[j]) : emitted[j][k].chunk_id < i)
  /\ [][\A j \in Jobs : jobState[j] = "error" =>
          jobState'[j] = "error" /\ emitted'[j] = emitted[j]]_vars

\* C9 witness: the generator ended with the error of slice 1 after chunk 0,
\* while slice 2 completed.
ErrorAfterPartialOutput ==
  \E j \in Jobs :
    /\ jobState[j] = "error"
    /\ awaitIdx[j] = 1
    /\ Len(emitted[j]) = 1
    /\ 2 \in Slices(j)
    /\ tasks[j][2].pc = "done"

\* C3: no port is in the locked_files of two processes, and the process
\* that has it there holds its OS lock.
PortHeldByOneProcess ==
  \A port \in Ports :
    /\ Cardinality({p \in Procs : port \in Held(p)}) <= 1
    /\ \A p \in Procs : port \in Held(p) => lock_table[port] = p

\* C3 witness: both processes went for the first port, one got it and the
\* other holds the next one.
BothProcessesHoldPorts ==
  \E p, q \in Procs :
    /\ p # q
    /\ locked_files[p] # <<>> /\ locked_files[p][1] = BasePort
    /\ locked_files[q] # <<>> /\ locked_files[q][1] = BasePort + 1

\* C10: _next_port makes at most MaxAttempts sweeps; a construction fails
\* only after a call used up its sweeps, and then for good, short of a
\* port; every port returned is one whose lock the process holds until it
\* releases it; only a process with all its ports serves.
AllocateOrFail ==
  /\ [](\A p \in Procs :
         /\ attempt[p] <= MaxAttempts
         /\ attempt[p] = MaxAttempts <=> ppc[p] \in {"failed", "exited"}
         /\ ppc[p] \in {"failed", "exited"} => Len(a2f_ports[p]) < ClientsPerWorker
         /\ ppc[p] \in {"init", "serving", "failed"} =>
              \A k \in DOMAIN a2f_ports[p] :
                a2f_ports[p][k] \in Held(p) /\ lock_table[a2f_ports[p][k]] = p
         /\ ppc[p] \in {"serving", "stopping", "stopped"} =>
              Len(a2f_ports[p]) = ClientsPerWorker)
  /\ [][\A p \in Procs : ppc[p] \in {"failed", "exited"} =>
          ppc'[p] \in {"failed", "exited"}]_vars

\* C10 witness: a process whose construction failed after it had been
\* given one port.
ConstructionFailed ==
  \E p \in Procs : ppc[p] = "failed" /\ Len(a2f_ports[p]) = 1

\* C11: a process whose teardown has finished holds the OS lock of no port
\* and has an empty locked_files; every port it had been given is free or
\* locked by another holder, and a free one is granted to the next process
\* that tries it.
TeardownReleasesAll ==
  /\ [](\A p \in Procs : ppc[p] = "stopped" =>
         /\ locked_files[p] = <<>>
         /\ \A port \in Ports : lock_table[port] # p)
  /\ [][\A p, q \in Procs :
          (/\ ppc[p] = "stopped" /\ ppc[q] = "init"
           /\ \E k \in DOMAIN a2f_ports[p] : a2f_ports[p][k] = available_ports[portIdx[q]]
           /\ lock_table[available_ports[portIdx[q]]] = NoProc
           /\ <<ppc[q], attempt[q], portIdx[q], a2f_ports[q]>>' #
                <<ppc[q], attempt[q], portIdx[q], a2f_ports[q]>>)
          => lock_table'[available_ports[portIdx[q]]] = q]_vars

\* C11 witness: a process has shut down and another one now holds the lock
\* of a port the first had been given.
ReleasedPortTakenOver ==
  \E p, q \in Procs :
    /\ p # q
    /\ ppc[p] = "stopped"
    /\ \E k \in DOMAIN a2f_ports[p] :
         lock_table[a2f_ports[p][k]] = q /\ a2f_ports[p][k] \in Held(q)

\* C12 as stated: for every pool size, an adjustment with alpha >= 1 never
\* lowers current_fps and never takes it above max_fps, and one with
\* alpha < 1 never takes it below min_fps.
RateConverges ==
  /\ [](current_fps \in min_fps..max_fps)
  /\ [][FastAdjustment => current_fps' >= current_fps /\ current_fps' <= max_fps]_vars
  /\ [][SlowAdjustment => current_fps' >= min_fps]_vars

\* C12 amended: the same, with the adjustments of alpha >= 1 never lowering
\* current_fps for a pool of two or more clients.
RateConvergesFromTwoClients ==
  /\ [](current_fps \in min_fps..max_fps)
  /\ [][FastAdjustment =>
          /\ current_fps' <= max_fps
          /\ pool_size >= 2 => current_fps' >= current_fps]_vars
  /\ [][SlowAdjustment => current_fps' >= min_fps]_vars

\* C12 witness: a pool of two clients whose adjustments took the rate to
\* max_fps.
RateRaisedToMax ==
  /\ pool_size = 2
  /\ rate_updates = MaxUpdates
  /\ current_fps = max_fps

\* C13: every client of the pool, with or without a slice of the job, has
\* received the setup of a submitted job exactly once (set_audio, then
\* set_emotions if the job has emotions), and a slice whose call has started
\* finds that setup complete on its client.
SetupOncePerWorker ==
  /\ \A j \in Jobs : Submitted(j) =>
       \A c \in Clients : SetupOf(j, c) = SetupCalls(j, requests[j])
  /\ \A t \in LiveTaskIds : Task(t).calls > 0 =>
       SetupOf(t[1], Task(t).client) = SetupCalls(t[1], requests[t[1]])

\* C13 witness: the only slice of a job is executing on client 0, and
\* client 1, which gets no slice, has the job's set_audio.
IdleWorkerWasSetUp ==
  \E j \in Jobs :
    /\ Slices(j) = {0}
    /\ tasks[j][0].thr = "running"
    /\ SetupOf(j, 1) = <<[job |-> j, call |-> "set_audio"]>>

\* C14: a setup call (set_audio, set_emotions) reaches a client only while
\* no generate call is executing on that client.
SetupNeverOverlapsGenerate ==
  [][\A c \in Clients :
       a2f_clients'[c].setup # a2f_clients[c].setup => CallsRunningOn(c) = {}]_vars

\* C15: a job whose emotions are malformed or whose audio duration is not
\* positive is rejected, and no client ever receives a setup call or a
\* generate call for it.
InvalidJobTouchesNoWorker ==
  \A j \in Jobs :
    (requests[j].malformed \/ load_audio(requests[j]) <= 0) =>
      /\ jobState[j] \in {"idle", "rejected"}
      /\ \A c \in Clients : SetupOf(j, c) = <<>>
      /\ \A i \in Slices(j) : tasks[j][i].calls = 0

\* C16: for every pool size p, slice i is bound to client i mod p; it waits
\* for and holds the lock of that client and of no other, and its call is
\* made on that client.
SliceOnClientIModP ==
  /\ \A t \in LiveTaskIds :
       /\ Task(t).client = t[2] % pool_size
       /\ Task(t).client \in Clients
  /\ \A c \in Clients :
       /\ client_locks[c].holder # NoTask => client_locks[c].holder[2] % pool_size = c
       /\ \A k \in DOMAIN client_locks[c].waiters :
            client_locks[c].waiters[k][2] % pool_size = c
       /\ \A t \in CallsRunningOn(c) : t[2] % pool_size = c

\* C16 witness: in a pool of two clients slice 2 of a job waits for the lock
\* of client 0, which slice 0 holds while its call runs, and slice 1 runs on
\* client 1.
ThirdSliceWaitsForFirstClient ==
  \E j \in Jobs :
    /\ pool_size = 2
    /\ 2 \in Slices(j)
    /\ client_locks[0].holder = <<j, 0>>
    /\ client_locks[0].waiters = << <<j, 2>> >>
    /\ <<j, 0>> \in CallsRunningOn(0)
    /\ <<j, 1>> \in CallsRunningOn(1)

\* C17: when every call returns and the consumers keep draining, every
\* submitted job's generator finishes (submitted ~> done, written as the
\* equivalent []<>(idle or done)), whatever the pool size and the other jobs
\* on the pool; a generator that finished has emitted exactly the n records
\* of its n slices, in order, and emits nothing more.
JobTerminates ==
  /\ \A j \in Jobs : []<>(jobState[j] \in {"idle", "done"})
  /\ [](\A j \in Jobs : jobState[j] = "done" =>
         /\ Slices(j) = 0..(nr_splits(requests[j].duration, chunk_size) - 1)
         /\ emitted[j] = [k \in 1..Cardinality(Slices(j)) |-> Record(j, k - 1)]
         /\ \A i \in Slices(j) : tasks[j][i].pc = "done")
  /\ [][\A j \in Jobs : jobState[j] = "done" =>
          jobState'[j] = "done" /\ emitted'[j] = emitted[j]]_vars

\* C17 witness: on a pool of one client a job of two slices has finished
\* with its two records, and so has another job with one slice.
TwoJobsDrained ==
  \E j, k \in Jobs :
    /\ j # k
    /\ pool_size = 1
    /\ jobState[j] = "done" /\ Len(emitted[j]) = 2
    /\ jobState[k] = "done" /\ Len(emitted[k]) = 1

\* C18: a generate call starts only for a slice that holds the lock of its
\* client, and the rate it is given is current_fps as it is when the call
\* starts, whatever it was when the slice was created.
CallUsesCurrentRate ==
  [][\A j \in Jobs : \A i \in Slices(j) :
       (tasks[j][i].thr = "queued" /\ tasks'[j][i].thr = "running") =>
         /\ tasks'[j][i].callFps = current_fps
         /\ GateHeldBy(<<j, i>>)]_vars

\* C18 witness: slices 1 and 2 of a job, created together, are executing
\* under different rates, slice 2 under a rate the job did not start with.
SlicesRunUnderDifferentRates ==
  \E j \in Jobs :
    /\ 2 \in Slices(j)
    /\ tasks[j][1].thr = "running" /\ tasks[j][2].thr = "running"
    /\ tasks[j][1].callFps # tasks[j][2].callFps
    /\ tasks[j][1].callFps = call_fps_at_creation(j, 1)

\* C19: with one client that never answers, every slice on another client
\* is eventually done; the records emitted are of chunks before the first
\* chunk of the hung client, all of them are eventually emitted, and a job
\* with a chunk on the hung client never finishes.
HungWorkerStallsOnlyItsSlices ==
  /\ []<>(\A t \in LiveTaskIds :
            a2f_clients[Task(t).client].hung \/ Task(t).pc = "done")
  /\ []<>(\A j \in Jobs : Submitted(j) => Len(emitted[j]) = FirstHungChunk(j))
  /\ [](\A j \in Jobs :
         /\ \A k \in 1..Len(emitted[j]) : emitted[j][k].chunk_id < FirstHungChunk(j)
         /\ jobState[j] = "done" => FirstHungChunk(j) = Cardinality(Slices(j))
         /\ \A i \in Slices(j) :
              a2f_clients[tasks[j][i].client].hung => tasks[j][i].pc # "done")

\* C19 witness: client 1 of two never answers; chunk 0 of a job is out,
\* slice 1 is executing on client 1 and slice 2 is done on client 0, its
\* record held back.
ChunkBehindHungWorkerHeldBack ==
  \E j \in Jobs :
    /\ pool_size = 2
    /\ a2f_clients[1].hung
    /\ 2 \in Slices(j)
    /\ Len(emitted[j]) = 1
    /\ tasks[j][1].thr = "running"
    /\ tasks[j][2].pc = "done"

\* C20: when the racing processes together ask for no more ports than
\* DEFAULT_WORKERS * clients_per_worker and nobody else holds a lock file,
\* no _next_port call completes a sweep without a port, no construction
\* fails, and the ports of a process are pairwise distinct.
StartupWithinFirstSweep ==
  (/\ NumProcs * ClientsPerWorker <= DefaultWorkers * ClientsPerWorker
   /\ \A port \in DOMAIN lock_table : lock_table[port] # Foreign) =>
    \A p \in Procs :
      /\ attempt[p] = 0
      /\ ppc[p] \notin {"failed", "exited"}
      /\ \A k, l \in DOMAIN a2f_ports[p] : k # l => a2f_ports[p][k] # a2f_ports[p][l]

\* C20 witness: two processes raced over a range nobody else held and both
\* serve; the first was refused its own first port and the other's port
\* before it got its second.
BothServeAfterRace ==
  /\ \A port \in Ports : lock_table[port] \in Procs
  /\ \A p \in Procs : ppc[p] = "serving"
  /\ a2f_ports[1] = <<BasePort, BasePort + 2>>
  /\ a2f_ports[2] = <<BasePort + 1, BasePort + 3>>

\* C21: a client on which a slice of job J is still to run, waits for the
\* lock, or has its generate call queued or executing, has the audio of J
\* bound.
SliceRunsOnOwnAudio ==
  \A t \in LiveTaskIds :
    (Task(t).pc \in {"created", "waiting", "running"} \/ Task(t).thr \in {"queued", "running"}) =>
      a2f_clients[Task(t).client].audio = t[1]
====
